---- MODULE Spec2Model ----
(***************************************************************************)
(* Open Buildings Explorer: the Streamlit session of src/main.py, the      *)
(* shard fetchers of src/openbuildings.py (TensorFlow GFile, the one       *)
(* main.py imports) and src/google_openbuildings.py (fsspec), the          *)
(* decompressor and the loader/filter.                                     *)
(*                                                                         *)
(* Abstractions.  The globe is a line of points 1..4; S2 level-6 cell "A"  *)
(* holds points 1..2 and cell "B" points 3..4.  A geometry is a kind and a *)
(* set of points; two geometries intersect when they share a point.  A     *)
(* shard is a sequence of rows; one transfer chunk carries one row.  A     *)
(* path is a sequence of string tokens.  Confidence is in thousandths.     *)
(*                                                                         *)
(* Specifications.  Spec is the session: script runs and the fetch action. *)
(* DecompSpec is uncompress called on its own, over files that are valid,  *)
(* truncated or missing, with both values of delete_compressed.            *)
(* ProgressSpec is one transfer of the fsspec fetcher counted in bytes.    *)
(* RaceSpec is two sessions that fetch one cell into the same directory,   *)
(* step by step.                                                           *)
(* CleanerSpec is remove_folder_contents called on its own, over folders   *)
(* of files, subdirectories and symbolic links, some of which cannot be    *)
(* removed.                                                                *)
(***************************************************************************)
EXTENDS Integers, Sequences, FiniteSets, TLC

\* ------------------------------------------------------------------ bounds

\* Largest number of chunks of a remote shard after which a transfer error
\* may be injected (an error may also strike before the first chunk).
MaxErrChunk == 1

\* ------------------------------------------------------------ the world

Cells == {"A", "B"}

CellOrder == <<"A", "B">>

CellPoints(c) == IF c = "A" THEN {1, 2} ELSE {3, 4}

\* pandas' mean of an empty column
NaN == -1

Row(id, pts, conf, ok) == [id |-> id, pts |-> pts, confidence |-> conf, wkt_ok |-> ok]

a1 == Row("a1", {2}, 900, TRUE)
a2 == Row("a2", {1, 2}, 800, TRUE)
a3 == Row("a3", {2}, 950, TRUE)
b1 == Row("b1", {4}, 500, TRUE)
b2 == Row("b2", {3}, 700, TRUE)
bad == Row("bad", {3}, 600, FALSE)

Shard(rows) == [exists |-> TRUE, rows |-> rows]

NoShard == [exists |-> FALSE, rows |-> <<>>]

\* The remote bucket's possible contents (fixed during a run).
RemoteConfigs ==
    { [A |-> Shard(<<a1, a2, a3>>), B |-> Shard(<<b1>>)],
      [A |-> Shard(<<a1>>),         B |-> Shard(<<b2, bad>>)],
      [A |-> NoShard,               B |-> Shard(<<b1, b2>>)] }

\* The two revisions of the shard fetcher: "tf" is src/openbuildings.py (the
\* one main.py imports), "fsspec" is src/google_openbuildings.py.
Impls == {"tf", "fsspec"}

\* ------------------------------------------------------- uploaded files

NoName == "<no name property>"

Feature(name, kind, pts) == [name |-> name, kind |-> kind, pts |-> pts]

\* The GeoJSON FeatureCollections the user may upload.
Files ==
    << <<Feature("r1", "Polygon", {1, 2}), Feature("r2", "MultiPolygon", {2, 3})>>,
       <<Feature("r1", "Polygon", {3, 4}), Feature("pt", "Point", {1}),
         Feature(NoName, "Polygon", {4})>> >>

NoFileUploaded == 0

\* ----------------------------------------------------------------- paths

data_dir == <<"./data">>

NonePath == <<"<None>">>

Unbound == <<"<unbound>">>

\* os.path.join(data_dir, f'{s2_code}_buildings.csv.gz'): the tokens of the
\* directory, then those of the file name
OutputPath(dir, c) == dir \o <<"/", c, "_buildings", ".csv", ".gz">>

\* str.replace('.gz', ''): every occurrence of the token is dropped
ReplaceGz(p) == SelectSeq(p, LAMBDA t : t # ".gz")

IsGzPath(p) == Len(p) >= 5 /\ p[Len(p)] = ".gz"

\* The tokens of the file name of a cache path: "/", cell, "_buildings",
\* ".csv" and, for a compressed file, ".gz".
NameLen(p) == IF IsGzPath(p) THEN 5 ELSE 4

PathCell(p) == p[Len(p) - NameLen(p) + 2]

\* os.path.dirname
DirOf(p) == SubSeq(p, 1, Len(p) - NameLen(p))

\* ----------------------------------------------------------------- files

File(rows, valid) == [exists |-> TRUE, rows |-> rows, valid |-> valid]

NoFile == [exists |-> FALSE, rows |-> <<>>, valid |-> TRUE]

Prefix(s, k) == SubSeq(s, 1, k)

Min(S) == CHOOSE x \in S : \A y \in S : x <= y

Max(S) == CHOOSE x \in S : \A y \in S : x >= y

\* --------------------------------------------------------- Region Coverer

Intersects(p, q) == p \cap q # {}

\* The covering of the bounding interval of the points, in cell order.
BoundsCovering(pts) ==
    SelectSeq(CellOrder,
              LAMBDA c : \E x \in CellPoints(c) : Min(pts) <= x /\ x <= Max(pts))

\* wkt_to_s2 with a fault: the geometry type is not validated.
wkt_to_s2_unvalidated(geom) == [raised |-> "", tokens |-> BoundsCovering(geom.pts)]

\* wkt_to_s2: ValueError unless the geometry is a POLYGON or MULTIPOLYGON,
\* otherwise the level-6 covering of the geometry's bounds.
wkt_to_s2(geom) ==
    IF geom.kind \notin {"Polygon", "MultiPolygon"}
    THEN [raised |-> "ValueError", tokens |-> <<>>]
    ELSE [raised |-> "", tokens |-> BoundsCovering(geom.pts)]

\* ----------------------------------------------------------- Shard Fetcher

\* What the remote stream does during one transfer.  `early` says that a
\* failure strikes while the remote object is opened, before the local file
\* is created; otherwise it strikes on a read, after `errAfter` chunks were
\* written.  errAfter = Len(rows) is a transfer without error.
\* exc: "" | "NotFound" | "Error"; created: the local file was opened 'wb'.
Stream(rem, early, errAfter) ==
    IF ~rem.exists
    THEN [exc |-> "NotFound", created |-> ~early, written |-> <<>>]
    ELSE IF errAfter >= Len(rem.rows)
         THEN [exc |-> "", created |-> TRUE, written |-> rem.rows]
         ELSE IF early
              THEN [exc |-> "Error", created |-> FALSE, written |-> <<>>]
              ELSE [exc |-> "Error", created |-> TRUE,
                    written |-> Prefix(rem.rows, errAfter)]

FetchResult(ret, raised, file, opens, msgs) ==
    [ret |-> ret, raised |-> raised, file |-> file, opens |-> opens, msgs |-> msgs]

\* download_data_from_s2_code with a fault: the existence check is gone,
\* every call transfers the object again.
download_without_cache_check(c, dir, dirok, file, rem, early, errAfter) ==
    LET t == Stream(rem, early, errAfter)
        left == IF t.created THEN File(t.written, TRUE) ELSE file
    IN  IF t.created /\ ~dirok
        THEN FetchResult(NonePath, "FileNotFoundError", file, 0, {})
        ELSE IF t.exc = ""
        THEN FetchResult(OutputPath(dir, c), "", left, 1, {})
        ELSE IF t.exc = "NotFound"
             THEN FetchResult(NonePath, "", left, 1, {})
             ELSE FetchResult(NonePath, "Error", left, 1, {})

\* src/openbuildings.py: except tf.errors.NotFoundError: return None; every
\* other exception propagates; nothing removes the local file.  The chunks
\* are re-encoded one gzip member each, so a partial file is a valid gzip.
\* `dirok` says whether the directory `dir` exists: when it does not,
\* open(output_path, 'wb') raises FileNotFoundError, before anything is read.
download_data_from_s2_code(c, dir, dirok, file, rem, early, errAfter) ==
    IF file.exists
    THEN FetchResult(OutputPath(dir, c), "", file, 0, {})
    ELSE LET t == Stream(rem, early, errAfter)
             left == IF t.created THEN File(t.written, TRUE) ELSE file
         IN  IF t.created /\ ~dirok
             THEN FetchResult(NonePath, "FileNotFoundError", file, 0, {})
             ELSE IF t.exc = ""
             THEN FetchResult(OutputPath(dir, c), "", left, 1, {})
             ELSE IF t.exc = "NotFound"
                  THEN FetchResult(NonePath, "", left, 1, {})
                  ELSE FetchResult(NonePath, "Error", left, 1, {})

\* src/google_openbuildings.py: except Exception: st.error (msgs), remove
\* the partial file if it exists, return None.  The bytes are copied as they
\* are, so a file cut short would be a truncated gzip.  In a missing
\* directory open(output_path, 'wb') raises, which the same clause catches.
google_download_data_from_s2_code(c, dir, dirok, file, rem, early, errAfter) ==
    IF file.exists
    THEN FetchResult(OutputPath(dir, c), "", file, 0, {})
    ELSE LET t == Stream(rem, early, errAfter)
         IN  IF t.exc = "" /\ dirok
             THEN FetchResult(OutputPath(dir, c), "", File(t.written, TRUE), 1, {})
             ELSE FetchResult(NonePath, "", NoFile, 1, {"Error during download"})

Fetch(impl_, c, dir, dirok, file, rem, early, errAfter) ==
    IF impl_ = "tf"
    THEN download_data_from_s2_code(c, dir, dirok, file, rem, early, errAfter)
    ELSE google_download_data_from_s2_code(c, dir, dirok, file, rem, early, errAfter)

\* ------------------------------------------------------------- Decompressor

\* uncompress with a fault: os.remove sits in a finally clause, so the input
\* is removed when the copy fails too.
uncompress_removing_in_finally(path, gzf, csvf, outdir, delete_compressed) ==
    IF path = NonePath
    THEN [ret |-> NonePath, raised |-> "TypeError", gz |-> gzf, csv |-> csvf]
    ELSE IF ~gzf.exists \/ ~outdir
         THEN [ret |-> NonePath, raised |-> "", gz |-> gzf, csv |-> csvf]
         ELSE [ret |-> IF gzf.valid THEN ReplaceGz(path) ELSE NonePath,
               raised |-> IF gzf.valid THEN "" ELSE "EOFError",
               gz |-> IF delete_compressed THEN NoFile ELSE gzf,
               csv |-> File(gzf.rows, TRUE)]

\* uncompress with a fault: the output is opened 'ab', not 'wb'.
uncompress_appending(path, gzf, csvf, outdir, delete_compressed) ==
    IF path = NonePath
    THEN [ret |-> NonePath, raised |-> "TypeError", gz |-> gzf, csv |-> csvf]
    ELSE IF ~gzf.exists \/ ~outdir
         THEN [ret |-> NonePath, raised |-> "", gz |-> gzf, csv |-> csvf]
         ELSE [ret |-> IF gzf.valid THEN ReplaceGz(path) ELSE NonePath,
               raised |-> IF gzf.valid THEN "" ELSE "EOFError",
               gz |-> IF delete_compressed /\ gzf.valid THEN NoFile ELSE gzf,
               csv |-> File(csvf.rows \o gzf.rows, TRUE)]

\* uncompress(gzipped_file, delete_compressed).  gzf is the file at the
\* path, csvf the file at gzipped_file.replace('.gz', ''), outdir says
\* whether the directory of that output path exists.  gzip.open of None
\* raises TypeError, of a missing file FileNotFoundError (caught: return
\* None); open(..., 'wb') in a missing directory raises FileNotFoundError
\* too (caught: return None); a truncated gzip raises after the output was
\* created and partly written.
\* Returns the value, the exception, and the two files afterwards.
uncompress(path, gzf, csvf, outdir, delete_compressed) ==
    IF path = NonePath
    THEN [ret |-> NonePath, raised |-> "TypeError", gz |-> gzf, csv |-> csvf]
    ELSE IF ~gzf.exists \/ ~outdir
         THEN [ret |-> NonePath, raised |-> "", gz |-> gzf, csv |-> csvf]
         ELSE IF ~gzf.valid
              THEN [ret |-> NonePath, raised |-> "EOFError", gz |-> gzf,
                    csv |-> File(gzf.rows, TRUE)]
              ELSE [ret |-> ReplaceGz(path), raised |-> "",
                    gz |-> IF delete_compressed THEN NoFile ELSE gzf,
                    csv |-> File(gzf.rows, TRUE)]

\* ---------------------------------------------------- Spatial Filter / Loader

\* The file a path names, given the cache's compressed and decompressed files.
FileAt(p, gzs, csvs) ==
    IF IsGzPath(p) THEN gzs[PathCell(p)] ELSE csvs[PathCell(p)]

\* pd.read_csv(gob_filepath) with the default header=0: the first line of the
\* file becomes the column names and is no data row; an empty file raises.
read_csv(file) ==
    IF ~file.exists THEN [raised |-> "FileNotFoundError", data |-> <<>>]
    ELSE IF Len(file.rows) = 0 THEN [raised |-> "EmptyDataError", data |-> <<>>]
    ELSE [raised |-> "", data |-> Tail(file.rows)]

\* gob_data['geometry'].apply(loads): one unparsable WKT raises for the frame.
apply_loads(data) ==
    IF \E i \in 1..Len(data) : ~data[i].wkt_ok THEN "WKTReadingError" ELSE ""

RECURSIVE SumConfidence(_)
SumConfidence(rows) ==
    IF rows = <<>> THEN 0 ELSE Head(rows).confidence + SumConfidence(Tail(rows))

\* filtered_gob_gdf['confidence'].mean()
mean(rows) == IF Len(rows) = 0 THEN NaN ELSE SumConfidence(rows) \div Len(rows)

NoneJson == [type |-> "None", features |-> <<>>]

\* GeoDataFrame.to_json(): a FeatureCollection of the rows
to_json(rows) == [type |-> "FeatureCollection", features |-> rows]

\* json.dump(json.loads(text)): the same document written again
json_roundtrip(doc) == [type |-> doc.type, features |-> doc.features]

NoBuffer == [type |-> "<unset>", features |-> <<>>]

\* gob_gdf[gob_gdf.intersects(input_geometry)]
intersects_filter(data, geom) ==
    SelectSeq(data, LAMBDA r : Intersects(r.pts, geom.pts))

\* load_and_filter_gob_data with a fault: the row count is stored as soon as
\* the file is read, before the geometries are parsed.
load_and_filter_counting_first(path, geom, s, gzs, csvs) ==
    LET rd == IF path = NonePath
              THEN [raised |-> "ValueError", data |-> <<>>]
              ELSE read_csv(FileAt(path, gzs, csvs))
        perr == IF rd.raised # "" THEN rd.raised ELSE apply_loads(rd.data)
        filtered == intersects_filter(rd.data, geom)
        json == to_json(filtered)
    IN  IF rd.raised # ""
        THEN [ss |-> s, error |-> perr, rerun |-> FALSE]
        ELSE IF perr # ""
        THEN [ss |-> [s EXCEPT !.building_count = Len(rd.data)],
              error |-> perr, rerun |-> FALSE]
        ELSE [ss |-> [s EXCEPT !.building_count = Len(filtered),
                               !.avg_confidence = mean(filtered),
                               !.filtered_gob_data = json,
                               !.info_box_visible = TRUE,
                               !.filtered_gob_geojson = json_roundtrip(json)],
              error |-> "", rerun |-> TRUE]

\* load_and_filter_gob_data with a fault: the export buffer is not written.
load_and_filter_without_buffer(path, geom, s, gzs, csvs) ==
    LET rd == IF path = NonePath
              THEN [raised |-> "ValueError", data |-> <<>>]
              ELSE read_csv(FileAt(path, gzs, csvs))
        perr == IF rd.raised # "" THEN rd.raised ELSE apply_loads(rd.data)
        filtered == intersects_filter(rd.data, geom)
    IN  IF perr # ""
        THEN [ss |-> s, error |-> perr, rerun |-> FALSE]
        ELSE [ss |-> [s EXCEPT !.building_count = Len(filtered),
                               !.avg_confidence = mean(filtered),
                               !.filtered_gob_data = to_json(filtered),
                               !.info_box_visible = TRUE],
              error |-> "", rerun |-> TRUE]

\* load_and_filter_gob_data of src/main.py: `path` is a path or None.
\* Returns the session state afterwards, the exception caught by its own
\* except clause (shown to the user), and whether st.rerun() was reached.
load_and_filter_gob_data(path, geom, s, gzs, csvs) ==
    LET rd == IF path = NonePath
              THEN [raised |-> "ValueError", data |-> <<>>]
              ELSE read_csv(FileAt(path, gzs, csvs))
        perr == IF rd.raised # "" THEN rd.raised ELSE apply_loads(rd.data)
        filtered == intersects_filter(rd.data, geom)
        json == to_json(filtered)
    IN  IF perr # ""
        THEN [ss |-> s, error |-> perr, rerun |-> FALSE]
        ELSE [ss |-> [s EXCEPT !.building_count = Len(filtered),
                               !.avg_confidence = mean(filtered),
                               !.filtered_gob_data = json,
                               !.info_box_visible = TRUE,
                               !.filtered_gob_geojson = json_roundtrip(json)],
              error |-> "", rerun |-> TRUE]

\* ------------------------------------------------------------ session state

NoneName == "<None>"

NoMap == [present |-> FALSE, zoom |-> 0, bounds |-> FALSE]

MapData(zoom, bounds) == [present |-> TRUE, zoom |-> zoom, bounds |-> bounds]

\* What st_folium may return for the rendered map.
MapStates == {MapData(11, TRUE), MapData(12, TRUE)}

DateList(dates) == [notice |-> FALSE, zoom |-> 0, dates |-> dates]

ZoomNotice(zoom) == [notice |-> TRUE, zoom |-> zoom, dates |-> <<>>]

\* initialize_session_state: filtered_gob_geojson is not among the keys set.
initialize_session_state ==
    [map_data |-> NoMap,
     filtered_gob_data |-> NoneJson,
     building_count |-> 0,
     avg_confidence |-> 0,
     imagery_dates |-> DateList(<<>>),
     selected_feature_name |-> NoneName,
     info_box_visible |-> FALSE,
     lat |-> 0,
     lon |-> 0,
     filtered_gob_geojson |-> NoBuffer]

\* ------------------------------------------------------------ script pieces

DefaultName(i) ==
    CASE i = 0 -> "Feature 0"
      [] i = 1 -> "Feature 1"
      [] i = 2 -> "Feature 2"
      [] OTHER -> "Feature n"

\* [feature['properties'].get('name', f'Feature {i}') for i, feature in enumerate(features)]
feature_names(fc) ==
    [i \in 1..Len(fc) |-> IF fc[i].name = NoName THEN DefaultName(i - 1) ELSE fc[i].name]

NoFeature == Feature(NoName, "<none>", {})

\* next((feature for ... if feature['properties'].get('name') == selected_feature_name), None)
selected_feature(fc, name) ==
    LET hits == {i \in 1..Len(fc) : fc[i].name # NoName /\ fc[i].name = name}
    IN  IF hits = {} THEN NoFeature ELSE fc[Min(hits)]

\* process_uploaded_file, lines 52-72: the reset when the selected name
\* differs from the one kept in the session, and the lookup of the feature.
process_front(s, fc, sel) ==
    LET name == feature_names(fc)[sel]
        s1 == IF s.selected_feature_name # name
              THEN [s EXCEPT !.filtered_gob_data = NoneJson,
                             !.building_count = 0,
                             !.avg_confidence = 0,
                             !.imagery_dates = DateList(<<>>),
                             !.info_box_visible = FALSE]
              ELSE s
    IN  [ss |-> [s1 EXCEPT !.selected_feature_name = name],
         feature |-> selected_feature(fc, name)]

\* get_geometry_center, on the line of points: twice the centre of the bounds
get_geometry_center(geom) == Min(geom.pts) + Max(geom.pts)

\* display_selected_feature, lines 84-108: the covering (which may raise),
\* the centre, the map, and whether the fetch button is rendered.
display_front(s, feat, md) ==
    LET cov == wkt_to_s2(feat)
    IN  IF cov.raised # ""
        THEN [ss |-> s, raised |-> cov.raised, tokens |-> <<>>, button |-> FALSE]
        ELSE [ss |-> [s EXCEPT !.lat = get_geometry_center(feat),
                               !.lon = get_geometry_center(feat),
                               !.map_data = md],
              raised |-> "", tokens |-> cov.tokens, button |-> Len(cov.tokens) > 0]

RECURSIVE sorted(_)
sorted(S) == IF S = {} THEN <<>> ELSE <<Min(S)>> \o sorted(S \ {Min(S)})

\* What the imagery-date collaborator (map_features.get_imagery_dates) may
\* answer: the capture dates it found, as yyyymmdd.
DateAnswers == {{}, {20210101, 20190505}}

\* The test of line 115 with a fault: the zoom level is not looked at.
imagery_query_at_any_zoom(s) == s.map_data.present /\ s.map_data.bounds

\* Lines 112-115: get_imagery_dates is called when the map data is there
\* and zoom_level >= 12 and bounds.
imagery_query(s) ==
    s.map_data.present /\ s.map_data.zoom >= 12 /\ s.map_data.bounds

NoQuery == [ran |-> FALSE, queried |-> FALSE]

\* What a script run that reaches line 112 does about the collaborator.
QueryRecord(s) == [ran |-> s.map_data.present, queried |-> imagery_query(s)]

\* display_selected_feature, lines 111-125
imagery_tail(s, dates) ==
    IF ~s.map_data.present THEN s
    ELSE IF imagery_query(s)
         THEN IF dates # {} THEN [s EXCEPT !.imagery_dates = DateList(sorted(dates))]
              ELSE s
         ELSE [s EXCEPT !.imagery_dates = ZoomNotice(s.map_data.zoom)]

GeoJsonError == "Error processing GeoJSON file"

LoadError == "Error loading GOB data"

DownloadError(c) ==
    IF c = "A" THEN "Error downloading GOB data for S2 token: A"
    ELSE "Error downloading GOB data for S2 token: B"

\* One run of the script in which the fetch button is not pressed:
\* process_uploaded_file and display_selected_feature to the end.
plain_run(s, fc, sel, md, dates) ==
    LET f == process_front(s, fc, sel)
        d == display_front(f.ss, f.feature, md)
    IN  IF f.feature = NoFeature
        THEN [ss |-> f.ss, reported |-> {}, button |-> FALSE, query |-> NoQuery]
        ELSE IF d.raised # ""
             THEN [ss |-> d.ss, reported |-> {GeoJsonError}, button |-> FALSE,
                   query |-> NoQuery]
             ELSE [ss |-> imagery_tail(d.ss, dates), reported |-> {},
                   button |-> d.button, query |-> QueryRecord(d.ss)]

\* -------------------------------------------------------------------- state

VARIABLES
    impl,                \* which fetcher revision is installed
    remote,              \* the bucket: cell -> shard
    uploaded,            \* the file in the uploader (an index of Files), or NoFileUploaded
    selIdx,              \* the selectbox's position
    ss,                  \* st.session_state
    reported,            \* the error messages on the page
    buttonOffered,       \* the "Fetch GOB Data" button is on the page (it can be
                         \* pressed once the running script is over)
    pc,                  \* "idle", or the place of the running fetch action
    idx,                 \* position of the for loop in s2_tokens
    s2_tokens,           \* the covering of the running fetch action
    input_geometry,      \* its region
    gob_data_compressed, \* local of download_and_process_gob_data
    gob_filepath,        \* local of download_and_process_gob_data (Unbound at first)
    dirExists,           \* data_dir exists
    gz,                  \* data_dir: cell -> {cell}_buildings.csv.gz
    csv,                 \* data_dir: cell -> {cell}_buildings.csv
    lastFetch,           \* history: the call of the fetcher that has just returned
    runLog,              \* history: what became of each cell in the fetch action
    lastLoad,            \* history: how the fetch action's loader step ended, and
                         \* the session state it started from
    lastQuery,           \* history: whether the script run reached the imagery
                         \* dates, and whether it queried the collaborator
    resultsFor,          \* history: the region the results in the session were
                         \* computed for (NoFeature when they are reset)
    fsDirs,              \* decompressor on its own: the directories that exist
    fsFiles,             \* decompressor on its own: path -> file
    lastUncompress,      \* history: the call of uncompress that has just returned
    xfer,                \* one transfer of the fsspec fetcher, byte by byte
    sess,                \* two sessions in one data_dir: each one's place in
                         \* the fetcher, its file offset, whether its handle is
                         \* on the file now at the path, and its last result
    shared,              \* two sessions in one data_dir: the cell's shard file
    raceLog,             \* history: what has happened between the two sessions
    folder,              \* remove_folder_contents on its own: the folder
    rfc                  \* remove_folder_contents on its own: the call's place,
                         \* the names still to visit, the folder as it was
                         \* when the call began, the names whose error was printed

\* The variables of the specifications of one component on its own.
decomp == <<fsDirs, fsFiles, lastUncompress>>

race == <<sess, shared, raceLog>>

cleaner == <<folder, rfc>>

units == <<decomp, xfer, race, cleaner>>

vars == <<impl, remote, uploaded, selIdx, ss, reported, buttonOffered, pc, idx,
          s2_tokens, input_geometry, gob_data_compressed, gob_filepath,
          dirExists, gz, csv, lastFetch, runLog, lastLoad, lastQuery,
          resultsFor, units>>

NoFetch ==
    [called |-> FALSE, cell |-> "", existed |-> FALSE, remoteExists |-> FALSE,
     early |-> FALSE, errAfter |-> 0, before |-> NoFile, after |-> NoFile,
     ret |-> NonePath, raised |-> "", opens |-> 0, newdir |-> FALSE]

NoLoad == [outcome |-> "", before |-> initialize_session_state]

\* The decompressor's own directories: data_dir, a directory whose name
\* holds ".gz", and the directory named like it without ".gz".
DecompDirs == {data_dir, <<"./up", ".gz">>, <<"./up">>}

DecompPaths ==
    {OutputPath(d, "A") : d \in DecompDirs}
        \cup {ReplaceGz(OutputPath(d, "A")) : d \in DecompDirs}

NoUncompress ==
    [called |-> FALSE, path |-> NonePath, delete_compressed |-> FALSE,
     gzBefore |-> NoFile, csvBefore |-> NoFile, outdir |-> FALSE,
     ret |-> NonePath, raised |-> "", again |-> FALSE, prevRet |-> NonePath]

DecompIdle ==
    /\ fsDirs = {}
    /\ fsFiles = [q \in DecompPaths |-> NoFile]
    /\ lastUncompress = NoUncompress

\* progress: bytes over total as a pair; shown: the byte count of the report
NoReport == [shown |-> 0, progress |-> <<0, 1>>]

NoTransfer ==
    [pc |-> "idle", total_size |-> 0, bytes_read |-> 0, chunks |-> 0,
     reports |-> 0, reported |-> FALSE, last |-> NoReport]

ProgressIdle == xfer = NoTransfer

Sessions == {1, 2}

IdleSession == [pc |-> "idle", off |-> 0, attached |-> FALSE, ret |-> ""]

NoRace ==
    [bothWriting |-> FALSE, hitOnPartial |-> FALSE, removedUnderWriter |-> FALSE]

RaceIdle ==
    /\ sess = [s \in Sessions |-> IdleSession]
    /\ shared = NoFile
    /\ raceLog = NoRace

\* The names an entry of the folder may have.
EntryNames == {"x", "y", "z"}

NoEntry == [kind |-> "none", locked |-> FALSE, contents |-> {}, target |-> "none"]

\* A regular file; os.unlink of a locked one raises (PermissionError).
RegularFile(locked) ==
    [kind |-> "file", locked |-> locked, contents |-> {}, target |-> "none"]

\* A subdirectory and the names inside it.
Directory(contents) ==
    [kind |-> "dir", locked |-> FALSE, contents |-> contents, target |-> "none"]

\* A symbolic link to something outside the folder: a regular file
\* ("file"), a directory ("dir") or nothing ("none", a dangling link).
SymLink(target, locked) ==
    [kind |-> "link", locked |-> locked, contents |-> {}, target |-> target]

Folder(entries) == [exists |-> TRUE, entries |-> entries]

EmptyFolder == Folder([n \in EntryNames |-> NoEntry])

NoCall ==
    [pc |-> "idle", pending |-> {}, before |-> EmptyFolder, printed |-> {},
     afterFailure |-> FALSE]

CleanerIdle ==
    /\ folder = EmptyFolder
    /\ rfc = NoCall

\* No component is run on its own.
UnitsIdle == DecompIdle /\ ProgressIdle /\ RaceIdle /\ CleanerIdle

\* The session before the first script run, with nothing in data_dir.
SessionInit ==
    /\ uploaded = NoFileUploaded
    /\ selIdx = 1
    /\ ss = initialize_session_state
    /\ reported = {}
    /\ buttonOffered = FALSE
    /\ pc = "idle"
    /\ idx = 1
    /\ s2_tokens = <<>>
    /\ input_geometry = NoFeature
    /\ gob_data_compressed = NonePath
    /\ gob_filepath = Unbound
    /\ dirExists = FALSE
    /\ gz = [c \in Cells |-> NoFile]
    /\ csv = [c \in Cells |-> NoFile]
    /\ lastFetch = NoFetch
    /\ runLog = [c \in Cells |-> ""]
    /\ lastLoad = NoLoad
    /\ lastQuery = NoQuery
    /\ resultsFor = NoFeature

Init ==
    /\ impl \in Impls
    /\ remote \in RemoteConfigs
    /\ SessionInit
    /\ UnitsIdle

world == <<impl, remote>>

disk == <<dirExists, gz, csv>>

locals == <<idx, s2_tokens, input_geometry, gob_data_compressed, gob_filepath>>

\* ------------------------------------------------------------- user actions

\* The locals of a fetch action are gone once its script run is over; the
\* history of that fetch action is dropped with them.
ResetLocals ==
    /\ idx' = 1
    /\ s2_tokens' = <<>>
    /\ input_geometry' = NoFeature
    /\ gob_data_compressed' = NonePath
    /\ gob_filepath' = Unbound
    /\ lastFetch' = NoFetch
    /\ runLog' = [c \in Cells |-> ""]
    /\ lastLoad' = NoLoad

\* Lines 58-64: the results are reset when the selected name is not the one
\* kept in the session; otherwise they stay, and stay those of `owner`.
ResultsOwner(s, fc, sel, owner) ==
    IF s.selected_feature_name # feature_names(fc)[sel] THEN NoFeature ELSE owner

\* A script run without the fetch button: main() with the widgets as given.
Rerun(f, sel) ==
    \E md \in MapStates, dates \in DateAnswers :
        LET r == plain_run(ss, Files[f], sel, md, dates)
        IN  /\ uploaded' = f
            /\ selIdx' = sel
            /\ ss' = r.ss
            /\ reported' = r.reported
            /\ buttonOffered' = r.button
            /\ lastQuery' = r.query
            /\ resultsFor' = ResultsOwner(ss, Files[f], sel, resultsFor)
            /\ ResetLocals
            /\ UNCHANGED <<pc, world, disk, units>>

\* The user uploads a file: the selectbox shows its first feature.
UploadFile ==
    /\ pc = "idle"
    /\ \E f \in 1..Len(Files) : Rerun(f, 1)

\* The user picks a feature in the selectbox.
SelectFeature ==
    /\ pc = "idle"
    /\ uploaded # NoFileUploaded
    /\ \E sel \in 1..Len(Files[uploaded]) : sel # selIdx /\ Rerun(uploaded, sel)

\* The user pans or zooms the map: the script runs again.
MoveMap ==
    /\ pc = "idle"
    /\ uploaded # NoFileUploaded
    /\ Rerun(uploaded, selIdx)

\* os.makedirs with a fault: the call is left out.
makedirs_left_out(exists) == exists

\* os.makedirs(data_dir, exist_ok=True): the directory exists afterwards
makedirs(exists) == TRUE

\* The user presses "Fetch GOB Data": the script runs to line 109 and enters
\* download_and_process_gob_data (os.makedirs, the loop's first iteration).
ClickFetch ==
    /\ pc = "idle"
    /\ buttonOffered
    /\ \E md \in MapStates :
        LET f == process_front(ss, Files[uploaded], selIdx)
            d == display_front(f.ss, f.feature, md)
        IN  /\ ss' = d.ss
            /\ s2_tokens' = d.tokens
            /\ input_geometry' = f.feature
    /\ reported' = {}
    /\ buttonOffered' = TRUE
    /\ dirExists' = makedirs(dirExists)
    /\ pc' = "fetch"
    /\ idx' = 1
    /\ gob_filepath' = Unbound
    /\ gob_data_compressed' = NonePath
    /\ runLog' = [c \in Cells |-> ""]
    /\ lastFetch' = [NoFetch EXCEPT !.newdir = ~dirExists]
    /\ lastLoad' = NoLoad
    /\ lastQuery' = NoQuery
    /\ resultsFor' = ResultsOwner(ss, Files[uploaded], selIdx, resultsFor)
    /\ UNCHANGED <<world, uploaded, selIdx, gz, csv, units>>

\* ------------------------------------------------------ the fetch action

\* Where a transfer of `rem` may be struck by an error: after k chunks, or
\* not at all (k = the number of chunks).
ErrPoints(rem) ==
    {Len(rem.rows)} \cup {k \in 0..Len(rem.rows) : k < Len(rem.rows) /\ k <= MaxErrChunk}

\* The loop with a fault: it is left one iteration early.
NextPc_leaving_early(i) == IF i >= Len(s2_tokens) THEN "load" ELSE "fetch"

\* for s2_token in s2_tokens: the next iteration, or the statement after the loop
NextPc(i) == IF i > Len(s2_tokens) THEN "load" ELSE "fetch"

\* continue with a fault: the except clause leaves the loop.
break_loop(i) == "load"

\* except Exception: ... continue (lines 159-162), in iteration i
continue(i) == NextPc(i + 1)

\* Line 154: gob_data_compressed = download_data_from_s2_code(s2_token, data_dir);
\* an exception goes to the loop's except clause (reported, continue).
FetchCell ==
    /\ pc = "fetch"
    /\ LET c == s2_tokens[idx]
       IN  \E early \in BOOLEAN, errAfter \in ErrPoints(remote[c]) :
             LET r == Fetch(impl, c, data_dir, dirExists, gz[c], remote[c], early, errAfter)
             IN  /\ gz' = [gz EXCEPT ![c] = r.file]
                 /\ lastFetch' = [called |-> TRUE, cell |-> c, existed |-> gz[c].exists,
                                  remoteExists |-> remote[c].exists,
                                  early |-> early, errAfter |-> errAfter,
                                  before |-> gz[c], after |-> r.file,
                                  ret |-> r.ret, raised |-> r.raised, opens |-> r.opens,
                                  newdir |-> lastFetch.newdir]
                 /\ IF r.raised # ""
                    THEN /\ reported' = reported \cup r.msgs \cup {DownloadError(c)}
                         /\ runLog' = [runLog EXCEPT ![c] = "skipped"]
                         /\ idx' = idx + 1
                         /\ pc' = continue(idx)
                         /\ UNCHANGED gob_data_compressed
                    ELSE /\ gob_data_compressed' = r.ret
                         /\ reported' = reported \cup r.msgs
                         /\ pc' = "uncompress"
                         /\ UNCHANGED <<runLog, idx>>
    /\ UNCHANGED <<world, uploaded, selIdx, ss, buttonOffered, s2_tokens,
                   input_geometry, gob_filepath, dirExists, csv, lastLoad,
                   lastQuery, resultsFor, units>>

\* Line 157: gob_filepath = uncompress(gob_data_compressed, delete_compressed=False)
UncompressCell ==
    /\ pc = "uncompress"
    /\ LET c == s2_tokens[idx]
           u == uncompress(gob_data_compressed, gz[c], csv[c], dirExists, FALSE)
       IN  /\ gz' = [gz EXCEPT ![c] = u.gz]
           /\ csv' = [csv EXCEPT ![c] = u.csv]
           /\ IF u.raised # ""
              THEN /\ reported' = reported \cup {DownloadError(c)}
                   /\ runLog' = [runLog EXCEPT ![c] = "skipped"]
                   /\ pc' = continue(idx)
                   /\ UNCHANGED gob_filepath
              ELSE /\ gob_filepath' = u.ret
                   /\ runLog' = [runLog EXCEPT ![c] = IF u.ret = NonePath THEN "nopath" ELSE "ok"]
                   /\ pc' = NextPc(idx + 1)
                   /\ UNCHANGED reported
    /\ idx' = idx + 1
    /\ UNCHANGED <<world, uploaded, selIdx, ss, buttonOffered, s2_tokens,
                   input_geometry, gob_data_compressed, dirExists, lastFetch,
                   lastLoad, lastQuery, resultsFor, units>>

LoadRecord(outcome) == [outcome |-> outcome, before |-> ss]

\* LoadUnbound with a fault: the handler of the failure clears the results.
LoadUnboundClearsResults ==
    /\ pc = "load"
    /\ gob_filepath = Unbound
    /\ reported' = reported \cup {GeoJsonError}
    /\ lastLoad' = [outcome |-> "unbound", before |-> ss]
    /\ ss' = [ss EXCEPT !.filtered_gob_data = NoneJson, !.building_count = 0,
                        !.avg_confidence = 0, !.info_box_visible = FALSE]
    /\ buttonOffered' = TRUE
    /\ pc' = "idle"
    /\ UNCHANGED <<world, uploaded, selIdx, disk, locals, lastFetch, runLog,
                   lastQuery, resultsFor, units>>

\* Line 165 with gob_filepath never assigned: UnboundLocalError, which
\* process_uploaded_file's except clause reports; the script run ends there.
LoadUnbound ==
    /\ pc = "load"
    /\ gob_filepath = Unbound
    /\ reported' = reported \cup {GeoJsonError}
    /\ lastLoad' = LoadRecord("unbound")
    /\ buttonOffered' = TRUE
    /\ pc' = "idle"
    /\ UNCHANGED <<world, uploaded, selIdx, ss, disk, locals, lastFetch, runLog,
                   lastQuery, resultsFor, units>>

\* Line 165, the loader raising: its except clause shows the error, and
\* display_selected_feature goes on to the imagery dates.
LoadFails ==
    /\ pc = "load"
    /\ gob_filepath # Unbound
    /\ LET r == load_and_filter_gob_data(gob_filepath, input_geometry, ss, gz, csv)
       IN  /\ r.error # ""
           /\ \E dates \in DateAnswers : ss' = imagery_tail(r.ss, dates)
           /\ lastQuery' = QueryRecord(r.ss)
           /\ lastLoad' = LoadRecord("error")
    /\ reported' = reported \cup {LoadError}
    /\ buttonOffered' = TRUE
    /\ pc' = "idle"
    /\ UNCHANGED <<world, uploaded, selIdx, disk, locals, lastFetch, runLog,
                   resultsFor, units>>

\* Line 165, the loader succeeding: the session's results are set and
\* st.rerun() starts the script again (without the button).
LoadSucceeds ==
    /\ pc = "load"
    /\ gob_filepath # Unbound
    /\ LET r == load_and_filter_gob_data(gob_filepath, input_geometry, ss, gz, csv)
       IN  /\ r.error = ""
           /\ lastLoad' = LoadRecord("ok")
           /\ \E md \in MapStates, dates \in DateAnswers :
                LET n == plain_run(r.ss, Files[uploaded], selIdx, md, dates)
                IN  /\ ss' = n.ss
                    /\ reported' = n.reported
                    /\ buttonOffered' = n.button
                    /\ lastQuery' = n.query
    /\ resultsFor' = input_geometry
    /\ pc' = "idle"
    /\ UNCHANGED <<world, uploaded, selIdx, disk, locals, lastFetch, runLog, units>>

Next ==
    \/ UploadFile
    \/ SelectFeature
    \/ MoveMap
    \/ ClickFetch
    \/ FetchCell
    \/ UncompressCell
    \/ LoadUnbound
    \/ LoadFails
    \/ LoadSucceeds

Spec == Init /\ [][Next]_vars

\* ------------------------------------------- the decompressor on its own

\* The variables of the session and its data_dir.
app == <<world, disk, locals, uploaded, selIdx, ss, reported, buttonOffered,
         pc, lastFetch, runLog, lastLoad, lastQuery, resultsFor>>

\* No session runs and the bucket is empty.
AppIdle ==
    /\ impl = "tf"
    /\ remote = [c \in Cells |-> NoShard]
    /\ SessionInit

\* What a compressed file may hold: a shard, a shard cut short (a truncated
\* gzip, of which the rows before the cut can be decompressed), another shard.
DecompContents ==
    {File(<<a1, a2>>, TRUE), File(<<a1>>, FALSE), File(<<b1>>, TRUE)}

\* The paths uncompress is called with: those of the compressed files, there
\* or not, and None.
DecompInputs == {OutputPath(d, "A") : d \in DecompDirs} \cup {NonePath}

DecompInit ==
    /\ AppIdle
    /\ ProgressIdle
    /\ RaceIdle
    /\ CleanerIdle
    /\ fsDirs \in {D \in SUBSET DecompDirs : data_dir \in D}
    /\ fsFiles = [q \in DecompPaths |-> NoFile]
    /\ lastUncompress = NoUncompress

\* A compressed file is left in a directory (by a fetch, or by hand).
StoreCompressed ==
    /\ \E d \in fsDirs, f \in DecompContents :
          /\ fsFiles[OutputPath(d, "A")] # f
          /\ fsFiles' = [fsFiles EXCEPT ![OutputPath(d, "A")] = f]
    /\ lastUncompress' = NoUncompress
    /\ UNCHANGED <<app, fsDirs, xfer, race, cleaner>>

\* uncompress(path, delete_compressed) is called.
Uncompress ==
    /\ \E path \in DecompInputs, delete_compressed \in BOOLEAN :
          LET out == ReplaceGz(path)
              gzf == IF path = NonePath THEN NoFile ELSE fsFiles[path]
              csvf == IF path = NonePath THEN NoFile ELSE fsFiles[out]
              outdir == path # NonePath /\ DirOf(out) \in fsDirs
              u == uncompress(path, gzf, csvf, outdir, delete_compressed)
          IN  /\ fsFiles' = IF path = NonePath THEN fsFiles
                            ELSE [fsFiles EXCEPT ![path] = u.gz, ![out] = u.csv]
              /\ lastUncompress' =
                    [called |-> TRUE, path |-> path,
                     delete_compressed |-> delete_compressed,
                     gzBefore |-> gzf, csvBefore |-> csvf, outdir |-> outdir,
                     ret |-> u.ret, raised |-> u.raised,
                     again |-> /\ lastUncompress.called
                               /\ lastUncompress.path = path
                               /\ ~lastUncompress.delete_compressed
                               /\ lastUncompress.ret # NonePath
                               /\ ~delete_compressed,
                     prevRet |-> lastUncompress.ret]
    /\ UNCHANGED <<app, fsDirs, xfer, race, cleaner>>

DecompNext == StoreCompressed \/ Uncompress

DecompSpec == DecompInit /\ [][DecompNext]_vars

\* ------------------------------- one transfer of the fsspec fetcher, in bytes

\* source.read(8192)
CHUNK == 8192

\* bytes_read % (8192 * 10)
REPORT_EVERY == 10

\* The largest remote object, in whole chunks.
MaxChunks == 20

\* The sizes of the remote objects: empty, whole chunks, a byte more, a byte less.
TransferSizes ==
    {n \in {k * CHUNK + d : k \in 0..MaxChunks, d \in {-1, 0, 1}} : n >= 0}

\* The test of line 140 with a fault: every chunk is reported.
progress_due_on_every_chunk(bytes_read, total_size) == TRUE

\* Line 140: if bytes_read % (8192 * 10) == 0 or bytes_read == total_size
progress_due(bytes_read, total_size) ==
    bytes_read % (CHUNK * REPORT_EVERY) = 0 \/ bytes_read = total_size

\* Line 141: progress = min(bytes_read / total_size, 1.0), as a fraction
progress(bytes_read, total_size) ==
    IF bytes_read <= total_size THEN <<bytes_read, total_size>> ELSE <<1, 1>>

\* Lines 120-123: the remote object is opened, its size is taken.
StartTransfer ==
    /\ xfer.pc \in {"idle", "done", "failed"}
    /\ \E total_size \in TransferSizes :
          xfer' = [NoTransfer EXCEPT !.pc = "reading", !.total_size = total_size]
    /\ UNCHANGED <<app, decomp, race, cleaner>>

\* Lines 133-143: one turn of the loop that reads a chunk, writes it, counts
\* it and reports when due.
ReadChunk ==
    /\ xfer.pc = "reading"
    /\ xfer.bytes_read < xfer.total_size
    /\ LET len == IF xfer.total_size - xfer.bytes_read < CHUNK
                  THEN xfer.total_size - xfer.bytes_read ELSE CHUNK
           bytes_read == xfer.bytes_read + len
           due == progress_due(bytes_read, xfer.total_size)
       IN  xfer' = [xfer EXCEPT
                      !.bytes_read = bytes_read,
                      !.chunks = @ + 1,
                      !.reported = due,
                      !.reports = IF due THEN @ + 1 ELSE @,
                      !.last = IF due
                               THEN [shown |-> bytes_read,
                                     progress |-> progress(bytes_read, xfer.total_size)]
                               ELSE @]
    /\ UNCHANGED <<app, decomp, race, cleaner>>

\* Lines 134-136 and 146-149: read returns no bytes, the loop is left and the
\* path is returned.
EndOfObject ==
    /\ xfer.pc = "reading"
    /\ xfer.bytes_read = xfer.total_size
    /\ xfer' = [xfer EXCEPT !.pc = "done", !.reported = FALSE]
    /\ UNCHANGED <<app, decomp, race, cleaner>>

\* Lines 152-158: a read raises; the partial file is removed, None returned.
ReadFails ==
    /\ xfer.pc = "reading"
    /\ xfer.bytes_read < xfer.total_size
    /\ xfer' = [xfer EXCEPT !.pc = "failed", !.reported = FALSE]
    /\ UNCHANGED <<app, decomp, race, cleaner>>

ProgressInit == AppIdle /\ DecompIdle /\ ProgressIdle /\ RaceIdle /\ CleanerIdle

ProgressNext == StartTransfer \/ ReadChunk \/ EndOfObject \/ ReadFails

ProgressSpec == ProgressInit /\ [][ProgressNext]_vars

\* ------------------------------------------- two sessions in one data_dir

\* Both sessions fetch this cell.
RaceCell == "A"

Other(s) == 3 - s

\* Session t has the file open for writing, and it is the file at the path.
Writing(t) == sess[t].pc = "write" /\ sess[t].attached

\* What a write leaves where nothing was written yet.
Hole == Row("<hole>", {}, 0, FALSE)

\* f.write at the handle's own offset: chunk i of the file becomes r.
WriteAt(rows, i, r) ==
    [j \in 1..Max({Len(rows), i}) |->
        IF j = i THEN r ELSE IF j <= Len(rows) THEN rows[j] ELSE Hole]

\* open with a fault: mode 'xb', which refuses a file that is there.
open_exclusive(file) == [ok |-> ~file.exists, file |-> File(<<>>, TRUE)]

\* open(output_path, 'wb'): the file is created, or truncated if it is there.
open_wb(file) == [ok |-> TRUE, file |-> File(<<>>, TRUE)]

\* if os.path.exists(output_path): return output_path
RaceCheck(s) ==
    /\ sess[s].pc = "idle"
    /\ IF shared.exists
       THEN /\ sess' = [sess EXCEPT ![s].ret = "path"]
            /\ raceLog' = [raceLog EXCEPT !.hitOnPartial = @ \/ Writing(Other(s))]
       ELSE /\ sess' = [sess EXCEPT ![s].pc = "open", ![s].ret = ""]
            /\ UNCHANGED raceLog
    /\ UNCHANGED <<app, decomp, xfer, cleaner, shared>>

\* src/google_openbuildings.py, except Exception: the file at the path is
\* removed if there is one, whoever wrote it, and None is returned.
Cleanup(s) ==
    /\ shared' = NoFile
    /\ sess' = [t \in Sessions |->
                   IF t = s THEN [IdleSession EXCEPT !.ret = "None"]
                   ELSE [sess[t] EXCEPT !.attached = FALSE]]
    /\ raceLog' = [raceLog EXCEPT
                     !.removedUnderWriter = @ \/ (shared.exists /\ Writing(Other(s)))]

\* The remote object and the local file are opened.  The fsspec revision
\* opens the remote object first and fails there when it is missing; the
\* TensorFlow revision opens it lazily, on the first read.
RaceOpen(s) ==
    /\ sess[s].pc = "open"
    /\ IF impl = "fsspec" /\ ~remote[RaceCell].exists
       THEN Cleanup(s)
       ELSE LET o == open_wb(shared)
            IN  IF o.ok
                THEN /\ shared' = o.file
                     /\ sess' = [sess EXCEPT ![s].pc = "write", ![s].off = 0,
                                             ![s].attached = TRUE]
                     /\ raceLog' = [raceLog EXCEPT
                                      !.bothWriting = @ \/ Writing(Other(s))]
                ELSE /\ sess' = [sess EXCEPT ![s] = [IdleSession EXCEPT !.ret = "raised"]]
                     /\ UNCHANGED <<shared, raceLog>>
    /\ UNCHANGED <<app, decomp, xfer, cleaner>>

\* One chunk is read and written at the session's offset; a handle on a
\* file that was removed since writes to no path.
RaceWrite(s) ==
    /\ sess[s].pc = "write"
    /\ remote[RaceCell].exists
    /\ sess[s].off < Len(remote[RaceCell].rows)
    /\ shared' = IF sess[s].attached
                 THEN [shared EXCEPT !.rows = WriteAt(@, sess[s].off + 1,
                                                      remote[RaceCell].rows[sess[s].off + 1])]
                 ELSE shared
    /\ sess' = [sess EXCEPT ![s].off = @ + 1]
    /\ UNCHANGED <<app, decomp, xfer, cleaner, raceLog>>

\* The TensorFlow revision's first read finds no remote object:
\* except tf.errors.NotFoundError: return None.
RaceNotFound(s) ==
    /\ sess[s].pc = "write"
    /\ ~remote[RaceCell].exists
    /\ sess' = [sess EXCEPT ![s] = [IdleSession EXCEPT !.ret = "None"]]
    /\ UNCHANGED <<app, decomp, xfer, cleaner, shared, raceLog>>

\* The last chunk was written: the file is closed and the path returned.
RaceFinish(s) ==
    /\ sess[s].pc = "write"
    /\ remote[RaceCell].exists
    /\ sess[s].off = Len(remote[RaceCell].rows)
    /\ sess' = [sess EXCEPT ![s] = [IdleSession EXCEPT !.ret = "path"]]
    /\ UNCHANGED <<app, decomp, xfer, cleaner, shared, raceLog>>

\* A read fails: the TensorFlow revision lets the exception go and leaves
\* the file; the fsspec revision cleans up.
RaceError(s) ==
    /\ sess[s].pc = "write"
    /\ remote[RaceCell].exists
    /\ sess[s].off < Len(remote[RaceCell].rows)
    /\ IF impl = "fsspec"
       THEN Cleanup(s)
       ELSE /\ sess' = [sess EXCEPT ![s] = [IdleSession EXCEPT !.ret = "raised"]]
            /\ UNCHANGED <<shared, raceLog>>
    /\ UNCHANGED <<app, decomp, xfer, cleaner>>

RaceInit ==
    /\ impl \in Impls
    /\ remote \in RemoteConfigs
    /\ SessionInit
    /\ DecompIdle
    /\ ProgressIdle
    /\ RaceIdle
    /\ CleanerIdle

RaceNext ==
    \E s \in Sessions :
        \/ RaceCheck(s)
        \/ RaceOpen(s)
        \/ RaceWrite(s)
        \/ RaceNotFound(s)
        \/ RaceFinish(s)
        \/ RaceError(s)

RaceSpec == RaceInit /\ [][RaceNext]_vars

\* ------------------------------------- remove_folder_contents on its own

\* What an entry of the folder may be.
Entries ==
    {NoEntry, RegularFile(FALSE), RegularFile(TRUE), Directory({"inner"}),
     SymLink("file", FALSE), SymLink("file", TRUE), SymLink("dir", FALSE),
     SymLink("none", FALSE)}

\* os.path.isfile(file_path): it follows symbolic links, so a link to a
\* regular file is one for it, and a link to a directory or to nothing is not.
isfile(entry) ==
    \/ entry.kind = "file"
    \/ entry.kind = "link" /\ entry.target = "file"

\* The except clause with a fault: the exception ends the loop.
stop_after_error(rest) == {}

\* except Exception as e: print(e), and the loop goes on with the rest
print_and_go_on(rest) == rest

CleanerInit ==
    /\ AppIdle
    /\ DecompIdle
    /\ ProgressIdle
    /\ RaceIdle
    /\ folder \in {Folder(e) : e \in [EntryNames -> Entries]}
    /\ rfc = NoCall

\* remove_folder_contents(folder_path) is called: os.listdir(folder_path)
ListFolder ==
    /\ rfc.pc \in {"idle", "done"}
    /\ rfc' = [NoCall EXCEPT
                 !.pc = "loop",
                 !.pending = {n \in EntryNames : folder.entries[n] # NoEntry},
                 !.before = folder]
    /\ UNCHANGED <<app, decomp, xfer, race, folder>>

\* One turn of the loop, for the next name of the listing (os.listdir gives
\* the names in no particular order).
VisitEntry ==
    /\ rfc.pc = "loop"
    /\ \E n \in rfc.pending :
          LET entry == folder.entries[n]
              rest == rfc.pending \ {n}
          IN  IF isfile(entry) /\ ~entry.locked
              THEN /\ folder' = [folder EXCEPT !.entries[n] = NoEntry]
                   /\ rfc' = [rfc EXCEPT !.pending = rest,
                                         !.afterFailure = @ \/ rfc.printed # {}]
              ELSE IF isfile(entry)
              THEN /\ rfc' = [rfc EXCEPT !.pending = print_and_go_on(rest),
                                         !.printed = @ \cup {n}]
                   /\ UNCHANGED folder
              ELSE /\ rfc' = [rfc EXCEPT !.pending = rest]
                   /\ UNCHANGED folder
    /\ UNCHANGED <<app, decomp, xfer, race>>

\* The listing is exhausted: the function returns.
ReturnFromRemove ==
    /\ rfc.pc = "loop"
    /\ rfc.pending = {}
    /\ rfc' = [rfc EXCEPT !.pc = "done"]
    /\ UNCHANGED <<app, decomp, xfer, race, folder>>

CleanerNext == ListFolder \/ VisitEntry \/ ReturnFromRemove

CleanerSpec == CleanerInit /\ [][CleanerNext]_vars

\* =================================================================== claims

\* The cell the fetcher was last called for, and its path in the cache.
FetchedCell == lastFetch.cell

\* The running (or just finished) fetch action went through the whole loop.
LoopOver == pc = "load" \/ lastLoad.outcome # ""

RECURSIVE RowsOfShards(_)
\* The rows of the decompressed shards of the cells `tokens` that the fetch
\* action fetched and decompressed, in covering order.
RowsOfShards(tokens) ==
    IF tokens = <<>> THEN <<>>
    ELSE (IF runLog[Head(tokens)] = "ok" THEN csv[Head(tokens)].rows ELSE <<>>)
         \o RowsOfShards(Tail(tokens))

\* The cells of the covering whose shard was fetched and decompressed.
OkCells == {c \in Cells : runLog[c] = "ok"}

\* C1: after a fetch action whose covering has more than one cell, the row
\* count, the mean confidence and the filtered rows are those of the rows of
\* every fetched and decompressed shard that intersect the region (stated
\* for the case the claim is about: more than one shard was fetched).
C1_ResultOverAllShards ==
    (lastLoad.outcome = "ok" /\ Cardinality(OkCells) > 1) =>
        LET rows == intersects_filter(RowsOfShards(s2_tokens), input_geometry)
        IN  /\ ss.building_count = Len(rows)
            /\ ss.avg_confidence = mean(rows)
            /\ ss.filtered_gob_data = to_json(rows)

\* C2: the loader takes every row of the file, the first included: the
\* result is exactly the rows of the file whose geometry intersects the region.
C2_EveryRowIsACandidate ==
    lastLoad.outcome = "ok" =>
        LET rows == intersects_filter(FileAt(gob_filepath, gz, csv).rows, input_geometry)
        IN  /\ ss.filtered_gob_data = to_json(rows)
            /\ ss.building_count = Len(rows)

\* C3: a fetch that finds the cell's file in the cache returns its path,
\* opens no remote object and leaves the file as it was; and a fetch that
\* returns a path leaves a file there, so the next fetch of the cell is such
\* a cache hit.
C3_FetchIdempotentThroughCache ==
    lastFetch.called =>
        /\ lastFetch.existed =>
              /\ lastFetch.ret = OutputPath(data_dir, FetchedCell)
              /\ lastFetch.raised = ""
              /\ lastFetch.opens = 0
              /\ lastFetch.after = lastFetch.before
              /\ gz[FetchedCell] = lastFetch.before
        /\ lastFetch.ret # NonePath =>
              /\ lastFetch.ret = OutputPath(data_dir, FetchedCell)
              /\ gz[FetchedCell].exists

\* C3 witness: a second fetch of a cell, served from the file the first left.
C3_Witness ==
    /\ lastFetch.called
    /\ lastFetch.existed
    /\ lastFetch.before.rows = remote[FetchedCell].rows
    /\ lastFetch.opens = 0

\* C4: a fetch of a cell with no remote object (and no cached file) returns
\* None and leaves no file for the cell, wherever the absence is detected.
C4_NotFoundLeavesNoFile ==
    (lastFetch.called /\ ~lastFetch.existed /\ ~lastFetch.remoteExists) =>
        /\ lastFetch.ret = NonePath
        /\ lastFetch.raised = ""
        /\ ~gz[FetchedCell].exists

\* C5: a transfer that fails, with an error other than not-found, after some
\* chunks were written leaves no file at the path, surfaces the error to the
\* caller, and is attempted once.
C5_TransferErrorCleansUpAndSurfaces ==
    (/\ lastFetch.called
     /\ ~lastFetch.existed
     /\ lastFetch.remoteExists
     /\ ~lastFetch.early
     /\ lastFetch.errAfter >= 1
     /\ lastFetch.errAfter < Len(remote[FetchedCell].rows)) =>
        /\ ~gz[FetchedCell].exists
        /\ lastFetch.raised # ""
        /\ lastFetch.opens = 1

Handled(c) == runLog[c] \in {"ok", "skipped", "nopath"}

ResultIds == {ss.filtered_gob_data.features[i].id :
                 i \in 1..Len(ss.filtered_gob_data.features)}

ShardIds(c) == {remote[c].rows[i].id : i \in 1..Len(remote[c].rows)}

\* C6: a cell whose fetch returns None or whose fetch or decompress raises
\* is skipped and reported, and the loop goes on: when the loop is over
\* every cell of the covering was handled in covering order, every cell not
\* skipped has its compressed and decompressed file, and a skipped cell has
\* no row in the result.
C6_SkippedCellDoesNotStopLoop ==
    /\ pc \in {"fetch", "uncompress"} =>
          /\ idx <= Len(s2_tokens)
          /\ \A i \in 1..Len(s2_tokens) : Handled(s2_tokens[i]) <=> i < idx
    /\ LoopOver => \A i \in 1..Len(s2_tokens) : Handled(s2_tokens[i])
    /\ (lastFetch.called /\ lastFetch.ret = NonePath /\ pc # "uncompress") =>
          runLog[FetchedCell] = "skipped"
    /\ (pc = "load" \/ lastLoad.outcome \in {"error", "unbound"}) =>
          \A c \in Cells : runLog[c] = "skipped" => DownloadError(c) \in reported
    /\ \A c \in Cells : runLog[c] = "ok" =>
          /\ gz[c].exists
          /\ csv[c] = File(gz[c].rows, TRUE)
    /\ lastLoad.outcome = "ok" =>
          \A c \in Cells : runLog[c] = "skipped" => ResultIds \cap ShardIds(c) = {}

\* C6 witness: the first cell of a two-cell covering was skipped, the second
\* was fetched and decompressed, and the loader went on to load it.
C6_Witness ==
    /\ lastLoad.outcome = "ok"
    /\ Len(s2_tokens) = 2
    /\ runLog[s2_tokens[1]] = "skipped"
    /\ runLog[s2_tokens[2]] = "ok"
    /\ ss.building_count > 0

ResultFields(s) ==
    <<s.filtered_gob_data, s.building_count, s.avg_confidence, s.info_box_visible>>

\* C7: when no cell of the covering yields a decompressed shard path, the
\* loader step fails, the failure is on the page, and the session's filtered
\* data, building count, mean confidence and info-box flag are as before.
C7_NoShardPathIsFatal ==
    (LoopOver /\ OkCells = {}) =>
        /\ pc = "load" => gob_filepath \in {Unbound, NonePath}
        /\ lastLoad.outcome # "" =>
              /\ lastLoad.outcome \in {"unbound", "error"}
              /\ reported \cap {GeoJsonError, LoadError} # {}
              /\ ResultFields(ss) = ResultFields(lastLoad.before)

\* C7 witness: every cell was skipped while results of an earlier fetch were
\* in the session; they are still there.
C7_Witness ==
    /\ lastLoad.outcome = "unbound"
    /\ OkCells = {}
    /\ ss.info_box_visible
    /\ ss.building_count > 0

AllResultFields(s) ==
    <<s.building_count, s.avg_confidence, s.filtered_gob_data,
      s.filtered_gob_geojson, s.info_box_visible>>

\* A line after the first (the first is taken for the column names) whose
\* WKT cannot be parsed.
HasUnparsableRow(file) == \E i \in 2..Len(file.rows) : ~file.rows[i].wkt_ok

\* C8: a parse failure of the loader is fatal for the call: whenever the
\* loaded file has an unparsable data row the call fails, and when the call
\* fails the error is on the page and building_count, avg_confidence,
\* filtered_gob_data, filtered_gob_geojson and info_box_visible are as before.
C8_ParseFailureIsFatal ==
    /\ (lastLoad.outcome \in {"ok", "error"} /\ gob_filepath # NonePath
        /\ HasUnparsableRow(FileAt(gob_filepath, gz, csv))) =>
          lastLoad.outcome = "error"
    /\ lastLoad.outcome = "error" =>
          /\ LoadError \in reported
          /\ AllResultFields(ss) = AllResultFields(lastLoad.before)

\* C8 witness: a load failed on an unparsable row while the results of an
\* earlier fetch were in the session.
C8_Witness ==
    /\ lastLoad.outcome = "error"
    /\ HasUnparsableRow(FileAt(gob_filepath, gz, csv))
    /\ ss.info_box_visible

GeometryKinds ==
    {"Point", "MultiPoint", "LineString", "MultiLineString", "Polygon",
     "MultiPolygon", "GeometryCollection"}

Polygonal == {"Polygon", "MultiPolygon"}

\* The feature the script displays for the widgets' values.
CurrentFeature == selected_feature(Files[uploaded], feature_names(Files[uploaded])[selIdx])

\* C9: wkt_to_s2 raises for every geometry that is no polygon or
\* multipolygon; while such a feature is selected the error is on the page,
\* the fetch button is not, and no fetch action runs; a running fetch
\* action is for a polygonal region.
C9_NonPolygonHaltsBeforeDownload ==
    /\ \A k \in GeometryKinds \ Polygonal, pts \in (SUBSET (1..4)) \ {{}} :
          wkt_to_s2(Feature("g", k, pts)).raised = "ValueError"
    /\ (uploaded # NoFileUploaded /\ CurrentFeature # NoFeature
        /\ CurrentFeature.kind \notin Polygonal) =>
          /\ pc = "idle"
          /\ GeoJsonError \in reported
          /\ ~buttonOffered
          /\ lastLoad.outcome = "" /\ ~lastFetch.called
    /\ pc # "idle" => input_geometry.kind \in Polygonal

\* C9 witness: the point feature is selected and the error is shown.
C9_Witness ==
    /\ uploaded # NoFileUploaded
    /\ CurrentFeature.kind = "Point"
    /\ GeoJsonError \in reported
    /\ \E c \in Cells : gz[c].exists

Covering == {s2_tokens[i] : i \in 1..Len(s2_tokens)}

\* A shard of cell c that a fetch transferred in full is in the directory.
CachedShard(c) ==
    /\ remote[c].exists
    /\ gz[c] = File(remote[c].rows, TRUE)

\* C10: when the fetch action of a region starts, the working directory
\* holds no shard file fetched for a previous, different region.  A fully
\* transferred shard of a cell outside the new region's covering can only
\* have been fetched for another region, so none is there.
C10_NoShardOfAnotherRegion ==
    (pc = "fetch" /\ idx = 1) =>
        \A c \in Cells \ Covering : ~CachedShard(c)

\* The file at the path the last call of uncompress was given, and the file
\* at the path it returned.
InputFile == fsFiles[lastUncompress.path]

OutputFile == fsFiles[lastUncompress.ret]

\* What decompressing the file yields.
Decompressed(file) == File(file.rows, TRUE)

\* C11: uncompress removes the compressed input only after the whole content
\* was copied: when it returns a path with delete_compressed=True the input
\* is gone and the file at the returned path holds the decompressed content;
\* when decompression fails midway (a truncated input) the exception reaches
\* the caller and the input is still there as it was; whenever the input is
\* gone the output is complete; with delete_compressed=False the input stays.
C11_InputRemovedOnlyAfterCopy ==
    (lastUncompress.called /\ lastUncompress.path # NonePath) =>
        /\ (lastUncompress.ret # NonePath /\ lastUncompress.delete_compressed) =>
              /\ ~InputFile.exists
              /\ OutputFile = Decompressed(lastUncompress.gzBefore)
        /\ (lastUncompress.gzBefore.exists /\ ~lastUncompress.gzBefore.valid
            /\ lastUncompress.outdir) =>
              /\ lastUncompress.raised # ""
              /\ InputFile = lastUncompress.gzBefore
        /\ (lastUncompress.gzBefore.exists /\ ~InputFile.exists) =>
              /\ lastUncompress.delete_compressed
              /\ lastUncompress.gzBefore.valid
              /\ lastUncompress.ret # NonePath
              /\ OutputFile = Decompressed(lastUncompress.gzBefore)
        /\ ~lastUncompress.delete_compressed => InputFile = lastUncompress.gzBefore

\* C11 witness: a call with delete_compressed=True has succeeded over an
\* older output: the input is gone, the output is the decompressed content.
C11_Witness ==
    /\ lastUncompress.called
    /\ lastUncompress.delete_compressed
    /\ lastUncompress.ret # NonePath
    /\ lastUncompress.csvBefore.exists
    /\ lastUncompress.csvBefore # OutputFile
    /\ ~InputFile.exists

\* C12: uncompress of a path at which no file exists returns None, raises
\* nothing and leaves both the input path and the output path as they were;
\* a call that fails for any other reason (a None path, an input that is
\* there) raises to the caller and does not return None.
C12_OnlyMissingInputIsNotFound ==
    lastUncompress.called =>
        /\ (lastUncompress.path # NonePath /\ ~lastUncompress.gzBefore.exists) =>
              /\ lastUncompress.ret = NonePath
              /\ lastUncompress.raised = ""
              /\ InputFile = lastUncompress.gzBefore
              /\ fsFiles[ReplaceGz(lastUncompress.path)] = lastUncompress.csvBefore
        /\ (lastUncompress.path = NonePath
            \/ (lastUncompress.gzBefore.exists /\ lastUncompress.ret = NonePath)) =>
              lastUncompress.raised # ""

\* The path with its last token, the compression suffix, removed.
WithoutSuffix(path) == SubSeq(path, 1, Len(path) - 1)

\* C13: the path uncompress writes to and returns is the input path with
\* exactly the trailing ".gz" removed: the same directory, no other part
\* altered, and never the input path itself.
C13_OutputPathDropsOnlyTheSuffix ==
    (lastUncompress.called /\ lastUncompress.path # NonePath
     /\ lastUncompress.ret # NonePath) =>
        /\ lastUncompress.ret = WithoutSuffix(lastUncompress.path)
        /\ DirOf(lastUncompress.ret) = DirOf(lastUncompress.path)
        /\ lastUncompress.ret # lastUncompress.path
        /\ fsFiles[WithoutSuffix(lastUncompress.path)]
              = Decompressed(lastUncompress.gzBefore)

\* C14: with delete_compressed=False a successful call leaves at the
\* returned path the decompressed input whatever was there before, and the
\* same call made again right after returns the same path and leaves the
\* same output and the same input.
C14_UncompressIdempotent ==
    (lastUncompress.called /\ ~lastUncompress.delete_compressed) =>
        /\ lastUncompress.ret # NonePath =>
              OutputFile = Decompressed(lastUncompress.gzBefore)
        /\ lastUncompress.again =>
              /\ lastUncompress.raised = ""
              /\ lastUncompress.ret = lastUncompress.prevRet
              /\ OutputFile = lastUncompress.csvBefore
              /\ InputFile = lastUncompress.gzBefore

\* C14 witness: the second of two successive calls on the same input has
\* returned, the output of the first having been there.
C14_Witness ==
    /\ lastUncompress.called
    /\ lastUncompress.again
    /\ lastUncompress.ret # NonePath
    /\ lastUncompress.csvBefore.exists
    /\ Len(OutputFile.rows) = 2

\* C15: within a fetch action the cells are handled one at a time in
\* covering order.  When the fetch of the cell at position idx is about to
\* start, exactly the cells before it were handled (fetched and decompressed,
\* or failed); the decompress step is for the cell just fetched; the loader
\* step starts with every cell handled; the position moves one cell at a
\* time; and a step that writes a shard file writes that of the one cell at
\* the loop's position.
C15_OneCellAtATimeInOrder ==
    /\ [](/\ pc \in {"fetch", "uncompress"} =>
               /\ idx \in 1..Len(s2_tokens)
               /\ \A i \in 1..Len(s2_tokens) : Handled(s2_tokens[i]) <=> i < idx
          /\ pc = "uncompress" =>
               /\ lastFetch.called
               /\ lastFetch.cell = s2_tokens[idx]
               /\ lastFetch.raised = ""
          /\ pc = "load" =>
               /\ idx = Len(s2_tokens) + 1
               /\ \A i \in 1..Len(s2_tokens) : Handled(s2_tokens[i]))
    /\ [][/\ (pc # "idle" /\ pc' # "idle") =>
               /\ s2_tokens' = s2_tokens
               /\ idx' \in {idx, idx + 1}
               /\ pc' = "uncompress" => (pc = "fetch" /\ idx' = idx)
               /\ (pc = "uncompress" \/ pc' = "load") => idx' = idx + 1
          /\ gz' # gz =>
               /\ pc = "fetch"
               /\ \A c \in Cells \ {s2_tokens[idx]} : gz'[c] = gz[c]]_vars

\* C15 witness: both cells of a two-cell covering were fetched and
\* decompressed, and the loader step is about to start.
C15_Witness ==
    /\ pc = "load"
    /\ Len(s2_tokens) = 2
    /\ \A c \in Cells : runLog[c] = "ok"

\* The feature listed at the selectbox's position.
ListedFeature == Files[uploaded][selIdx]

\* C16: every listed name selects the feature it was listed for, a feature
\* without a name property included: once the script has run, the feature
\* it looked up is the one at the selected position, and a polygonal one is
\* displayed (the map is centred on it and the fetch button is offered).
C16_ListedNameSelectsItsFeature ==
    (uploaded # NoFileUploaded /\ pc = "idle") =>
        /\ ss.selected_feature_name = feature_names(Files[uploaded])[selIdx]
        /\ CurrentFeature = ListedFeature
        /\ ListedFeature.kind \in Polygonal =>
              /\ ss.lat = get_geometry_center(ListedFeature)
              /\ buttonOffered

\* C17: the imagery-date collaborator is queried only at zoom 12 or more
\* with the map bounds there; a script run that reaches the imagery dates at
\* a lower zoom issues no query and leaves the zoom-level notice in
\* imagery_dates, not a list of dates; a run that does not reach them
\* issues no query.
C17_ImageryQueryOnlyFromZoom12 ==
    /\ lastQuery.queried =>
          /\ lastQuery.ran
          /\ ss.map_data.zoom >= 12
          /\ ss.map_data.bounds
    /\ (lastQuery.ran /\ ss.map_data.zoom < 12) =>
          /\ ~lastQuery.queried
          /\ ss.imagery_dates = ZoomNotice(ss.map_data.zoom)

\* C17 witness: with the results of a fetch on the page, a run at zoom 11
\* has reached the imagery dates, issued no query and left the notice.
C17_Witness ==
    /\ lastQuery.ran
    /\ ~lastQuery.queried
    /\ ss.map_data.zoom = 11
    /\ ss.imagery_dates.notice
    /\ ss.info_box_visible

C19_ThrottledProgress ==
    /\ xfer.reported =>
          /\ xfer.bytes_read % 81920 = 0 \/ xfer.bytes_read = xfer.total_size
          /\ xfer.last.shown = xfer.bytes_read
    /\ (xfer.pc = "reading" /\ xfer.chunks > 0 /\ ~xfer.reported) =>
          xfer.bytes_read % 8192 = 0
    /\ xfer.reports > 0 =>
          /\ xfer.last.progress = <<xfer.last.shown, xfer.total_size>>
          /\ xfer.last.progress[1] <= xfer.last.progress[2]
    /\ xfer.chunks > 1 => xfer.reports < xfer.chunks
    /\ xfer.reports <= 1 + xfer.chunks \div 10
    /\ (xfer.pc = "done" /\ xfer.total_size > 0) =>
          /\ xfer.reports > 0
          /\ xfer.last.shown = xfer.total_size
          /\ xfer.last.progress[1] = xfer.last.progress[2]

\* C19 witness: a transfer of twenty chunks and a byte is complete, with
\* three reports: at ten chunks, at twenty, and at the end.
C19_Witness ==
    /\ xfer.pc = "done"
    /\ xfer.total_size = 20 * 8192 + 1
    /\ xfer.chunks = 21
    /\ xfer.reports = 3

\* C20: nothing but the existence check stands between two sessions that
\* fetch the same cell into one directory.  A session that passed the check
\* opens the file for writing, creating or truncating it, whatever the other
\* session is doing with it; a check that finds the file returns the path at
\* once, written out or not; and the error cleanup (of the fsspec revision
\* only) removes the file at the path, whoever has it open.
C20_NothingButTheCheckGuardsTheFile ==
    /\ [](raceLog.removedUnderWriter => impl = "fsspec")
    /\ [][\A s \in Sessions :
            /\ (/\ sess[s].pc = "open"
                /\ sess'[s].pc # "open"
                /\ ~(impl = "fsspec" /\ ~remote[RaceCell].exists)) =>
                  /\ sess'[s].pc = "write"
                  /\ sess'[s].attached
                  /\ shared' = File(<<>>, TRUE)
                  /\ sess'[Other(s)] = sess[Other(s)]
            /\ (sess[s].pc = "idle" /\ shared.exists /\ sess'[s] # sess[s]) =>
                  /\ sess'[s].pc = "idle"
                  /\ sess'[s].ret = "path"
                  /\ shared' = shared
            /\ (/\ impl = "fsspec"
                /\ sess[s].pc # "idle"
                /\ sess'[s].pc = "idle"
                /\ sess'[s].ret = "None") =>
                  /\ ~shared'.exists
                  /\ \A t \in Sessions : ~sess'[t].attached]_vars

\* C20 witness: in one run both sessions passed the check and had the file
\* open for writing at once, a session removed the file in its error
\* cleanup while the other was writing it, and a session got a cache hit on
\* the file while the other was still writing it.
C20_Witness ==
    /\ raceLog.bothWriting
    /\ raceLog.removedUnderWriter
    /\ raceLog.hitOnPartial
    /\ \E s \in Sessions : sess[s].ret = "path" /\ Writing(Other(s))
                               /\ Len(shared.rows) < Len(remote[RaceCell].rows)

\* The results are in their reset values.
ResultsReset ==
    /\ ss.filtered_gob_data = NoneJson
    /\ ss.building_count = 0
    /\ ss.avg_confidence = 0

Geometry(f) == <<f.kind, f.pts>>

\* C21: the results in the session are in their reset values or were
\* computed for the geometry of the feature now selected, a feature of the
\* same name as the previous one included.
C21_ResultsAreOfTheSelectedRegion ==
    \/ ResultsReset
    \/ /\ uploaded # NoFileUploaded
       /\ Geometry(resultsFor) = Geometry(CurrentFeature)

\* C22: whenever the info box is visible the session holds filtered data,
\* and whenever it holds filtered data the export buffer is there and is
\* the serialisation of that same data.
C22_ExportMatchesFilteredData ==
    /\ ss.info_box_visible => ss.filtered_gob_data # NoneJson
    /\ ss.filtered_gob_data # NoneJson =>
          /\ ss.filtered_gob_geojson # NoBuffer
          /\ ss.filtered_gob_geojson.type = "FeatureCollection"
          /\ ss.filtered_gob_geojson.features = ss.filtered_gob_data.features

\* C22 witness: a load has replaced the data and the export buffer of an
\* earlier load by other ones, and the info box is visible.
C22_Witness ==
    /\ lastLoad.outcome = "ok"
    /\ ss.info_box_visible
    /\ lastLoad.before.filtered_gob_geojson # NoBuffer
    /\ lastLoad.before.filtered_gob_geojson # ss.filtered_gob_geojson
    /\ Len(ss.filtered_gob_data.features) > 0

\* C23: remove_folder_contents removes the regular files directly inside
\* the folder and nothing else, a regular file being what os.path.isfile
\* takes for one (a file, or a link that leads to a file).  At every point
\* of a call an entry that differs from what it was is a regular file now
\* gone, so subdirectories and what is in them are as they were and the
\* folder is there; when the call has returned every regular file is gone
\* except those whose removal failed, and the error of each of those was
\* printed.
C23_OnlyRegularFilesRemoved ==
    rfc.pc # "idle" =>
        /\ folder.exists
        /\ \A n \in EntryNames :
              /\ folder.entries[n] # rfc.before.entries[n] =>
                    /\ isfile(rfc.before.entries[n])
                    /\ ~rfc.before.entries[n].locked
                    /\ folder.entries[n] = NoEntry
              /\ ~isfile(rfc.before.entries[n]) =>
                    folder.entries[n] = rfc.before.entries[n]
        /\ rfc.pc = "done" =>
              \A n \in EntryNames :
                  isfile(rfc.before.entries[n]) =>
                      IF rfc.before.entries[n].locked
                      THEN n \in rfc.printed /\ folder.entries[n] = rfc.before.entries[n]
                      ELSE folder.entries[n] = NoEntry

\* C23 witness: the call has returned from a folder that held a file it
\* could not remove, a file it removed after that failure, and a
\* subdirectory.
C23_Witness ==
    /\ rfc.pc = "done"
    /\ rfc.printed # {}
    /\ rfc.afterFailure
    /\ \E n \in EntryNames : folder.entries[n].kind = "dir"
    /\ \E n \in EntryNames :
          isfile(rfc.before.entries[n]) /\ folder.entries[n] = NoEntry

====
